---- MODULE Spec2Model ----
(***************************************************************************)
(* Tool-call approval loops of src/main.py.                                *)
(*                                                                         *)
(*   handle_approvals_streaming / streaming_example : the thread-less       *)
(*       loop that streams a turn, collects approval requests, prompts the  *)
(*       operator and resubmits.                                            *)
(*   approval_example / rejection_example : the thread-based variant, one   *)
(*       blocking call per turn.                                            *)
(*                                                                         *)
(* The agent runtime and the operator are the environment: the chunks of a  *)
(* stream, the results of a blocking call and the operator's answers are    *)
(* chosen nondeterministically from small sets.  A step of the model is the *)
(* code between two suspension points (await) or loop heads.                *)
(***************************************************************************)
EXTENDS Naturals, Sequences, FiniteSets

\* ---------------------------------------------------------------- bounds
\* chunks the runtime produces over one run (all streams together)
MaxChunks == 3
\* approval requests the runtime surfaces over one run
MaxRequests == 2
\* ------------------------------------------------------- value domains
RequestIds == {1, 2}
\* the request lists one chunk or one result may carry
RequestLists == { <<>>, <<1>>, <<2>>, <<1, 2>> }
\* chunk.text: "" is the falsy (absent) text
Texts == {"", "a", "b"}
\* operator answers, as sequences of characters
Answers == { <<"y">>, <<"Y">>, <<"n">>, <<"y", "e", "s">>, <<" ", "y">>, <<>> }

StreamingQuery == "Can you give me an update of the weather in Portland and detailed weather for Seattle?"
ApprovalQuery == "Add a dentist appointment on March 15th"
RejectionQuery == "Add a team meeting on December 20th"

Examples == {"streaming_example", "approval_example", "rejection_example"}
ThreadExamples == {"approval_example", "rejection_example"}

\* the query each example passes on
QueryOf(ex) ==
    IF ex = "streaming_example" THEN StreamingQuery
    ELSE IF ex = "approval_example" THEN ApprovalQuery
    ELSE RejectionQuery

\* the decision hard-wired into each thread example
ApprovedOf(ex) == ex = "approval_example"

\* -------------------------------------------------- messages and contents
\* a content item; the same four fields for every kind
TextContent(t) == [kind |-> "text", id |-> 0, approved |-> FALSE, text |-> t]
ApprovalRequest(r) == [kind |-> "approval_request", id |-> r, approved |-> FALSE, text |-> ""]

\* request.to_function_approval_response(approved)
to_function_approval_response(r, approved) ==
    [kind |-> "approval_response", id |-> r, approved |-> approved, text |-> ""]

\* ChatMessage(role=..., contents=[content])
ChatMessage(role, content) == [role |-> role, contents |-> <<content>>]

\* a bare string placed in a list of inputs
StrEntry(q) == [role |-> "str", contents |-> <<TextContent(q)>>]

\* what is handed to run / run_stream: a str, a list, or one ChatMessage
StrInput(q) == [kind |-> "str", items |-> <<StrEntry(q)>>]
ListInput(items) == [kind |-> "list", items |-> items]
MessageInput(m) == [kind |-> "message", items |-> <<m>>]

\* ------------------------------------------------------------ str.lower
LowerChar(c) ==
    IF c = "Y" THEN "y"
    ELSE IF c = "N" THEN "n"
    ELSE c

Lower(s) == [i \in DOMAIN s |-> LowerChar(s[i])]

\* a plausible slip: the comparison is made without lower-casing
DecisionCaseSensitive(answer) == answer = <<"y">>

\* user_approval.lower() == "y"
Decision(answer) == Lower(answer) = <<"y">>

\* --------------------------------------------- steps of the stream loop
\* a plausible slip: assignment instead of extend
CollectAssign(collected, chunk) ==
    IF chunk.user_input_requests # <<>> THEN chunk.user_input_requests ELSE collected

\* if chunk.user_input_requests: user_input_requests.extend(...)
Collect(collected, chunk) ==
    IF chunk.user_input_requests # <<>>
    THEN collected \o chunk.user_input_requests
    ELSE collected

\* if chunk.text: print(chunk.text, end="", flush=True)
Emit(out, chunk) ==
    IF chunk.text # "" THEN Append(out, [kind |-> "text", text |-> chunk.text, id |-> 0]) ELSE out

\* the print of the request's function and arguments
EmitRequest(out, r) == Append(out, [kind |-> "request", text |-> "", id |-> r])

\* a plausible slip: the loop flag is set whether or not requests were collected
NeedsAnotherTurnAlways(collected) == TRUE

\* if user_input_requests: has_user_input_requests = True
NeedsAnotherTurn(collected) == collected # <<>>

\* a plausible slip: the rebuilt input starts empty
NewInputsEmpty(q) == <<>>

\* new_inputs: list[Any] = [query]
NewInputs(q) == <<StrEntry(q)>>

\* new_inputs.append(ChatMessage(role="assistant", contents=[user_input_needed]))
AppendRequest(inputs, r) == Append(inputs, ChatMessage("assistant", ApprovalRequest(r)))

\* a plausible slip: a rejected request gets no response message
AppendResponseIfApproved(inputs, r, answer) ==
    IF Decision(answer)
    THEN Append(inputs, ChatMessage("user", to_function_approval_response(r, TRUE)))
    ELSE inputs

\* new_inputs.append(ChatMessage(role="user", contents=[...response...]))
AppendResponse(inputs, r, answer) ==
    Append(inputs, ChatMessage("user", to_function_approval_response(r, Decision(answer))))

\* a plausible slip: the follow-up call resends the query with the response
FollowUpInputWithQuery(q, r, approved) ==
    ListInput(<<StrEntry(q), ChatMessage("user", to_function_approval_response(r, approved))>>)

\* agent.run(ChatMessage(role="user", contents=[approval_response]), thread=thread)
FollowUpInput(q, r, approved) ==
    MessageInput(ChatMessage("user", to_function_approval_response(r, approved)))

\* ---------------------------------------------------------------- state
VARIABLES
    example,                  \* which example function runs
    query,                    \* its query
    pc,                       \* position in the code
    agentOpen,                \* inside the agent's async-with scope
    thread,                   \* 0: none, 1: the thread of get_new_thread()
    current_input,            \* handle_approvals_streaming
    has_user_input_requests,
    user_input_requests,
    new_inputs,
    user_approval,            \* the operator's latest answer
    idx,                      \* position of the running for loop (1-based)
    result,                   \* thread examples: the latest result
    iter_requests,            \* thread examples: the list the for loop walks
    turns,                    \* every run / run_stream call: input and thread
    output,                   \* everything printed
    streamOpen,               \* the runtime's stream of the current turn is live
    streamLog,                \* chunks the runtime produced in the current turn
    asked,                    \* requests the operator was prompted for, this iteration
    history,                  \* approval messages of every round of the run
    surfaced,                 \* requests carried by any result (thread examples)
    firstRequests,            \* requests carried by the first result
    fault,                    \* "none", "stream" or "approver"
    nChunks,
    nRequests

vars == << example, query, pc, agentOpen, thread, current_input,
           has_user_input_requests, user_input_requests, new_inputs, user_approval,
           idx, result, iter_requests, turns, output, streamOpen, streamLog,
           asked, history, surfaced, firstRequests, fault,
           nChunks, nRequests >>

progVars == << current_input, has_user_input_requests, user_input_requests, new_inputs,
              user_approval, idx >>
threadVars == << result, iter_requests, surfaced, firstRequests >>
ghostVars == << streamOpen, streamLog, asked, history, fault >>
countVars == << nChunks, nRequests >>

NoInput == [kind |-> "none", items |-> <<>>]
NoResult == [text |-> "", user_input_requests |-> <<>>]

Init ==
    /\ example \in Examples
    /\ query = QueryOf(example)
    /\ pc = "enter_scope"
    /\ agentOpen = FALSE
    /\ thread = 0
    /\ current_input = NoInput
    /\ has_user_input_requests = FALSE
    /\ user_input_requests = <<>>
    /\ new_inputs = <<>>
    /\ user_approval = <<>>
    /\ idx = 1
    /\ result = NoResult
    /\ iter_requests = <<>>
    /\ turns = <<>>
    /\ output = <<>>
    /\ streamOpen = FALSE
    /\ streamLog = <<>>
    /\ asked = <<>>
    /\ history = <<>>
    /\ surfaced = <<>>
    /\ firstRequests = <<>>
    /\ fault = "none"
    /\ nChunks = 0
    /\ nRequests = 0

\* what the runtime may put in one chunk / one result
Chunks == [text : Texts, user_input_requests : RequestLists]
Results == [text : Texts \ {""}, user_input_requests : RequestLists]

\* all requests of a sequence of chunks, in arrival order
RECURSIVE RequestsOf(_)
RequestsOf(chunks) ==
    IF chunks = <<>> THEN <<>>
    ELSE RequestsOf(SubSeq(chunks, 1, Len(chunks) - 1)) \o chunks[Len(chunks)].user_input_requests

\* the non-empty texts of a sequence of chunks, in arrival order
RECURSIVE TextsOf(_)
TextsOf(chunks) ==
    IF chunks = <<>> THEN <<>>
    ELSE LET rest == TextsOf(SubSeq(chunks, 1, Len(chunks) - 1))
             last == chunks[Len(chunks)]
         IN  IF last.text # "" THEN Append(rest, last.text) ELSE rest

\* a run / run_stream call
Call(input) == [input |-> input, thread |-> thread]

\* ------------------------------------------------- the examples' preamble
\* async with ...as_agent(...) as agent: entering the scope; the body creates
\* the thread (thread examples) and prints the query
EnterScope ==
    /\ pc = "enter_scope"
    /\ agentOpen' = TRUE
    /\ thread' = IF example \in ThreadExamples THEN 1 ELSE 0
    /\ output' = Append(output, [kind |-> "query", text |-> query, id |-> 0])
    /\ pc' = "in_scope"
    /\ UNCHANGED << example, query, progVars, threadVars, turns, ghostVars, countVars >>

\* the end of the async-with block: the scope is left before any turn is issued
ExitScope ==
    /\ pc = "in_scope"
    /\ agentOpen' = FALSE
    /\ pc' = IF example = "streaming_example" THEN "call_handle" ELSE "run_query"
    /\ UNCHANGED << example, query, thread, progVars, threadVars, turns, output,
                    ghostVars, countVars >>

\* ------------------------------------------- handle_approvals_streaming
\* streaming_example calls handle_approvals_streaming(query, agent)
CallHandle ==
    /\ pc = "call_handle"
    /\ current_input' = StrInput(query)
    /\ has_user_input_requests' = TRUE
    /\ pc' = "while"
    /\ UNCHANGED << user_approval, example, query, agentOpen, thread, user_input_requests, new_inputs,
                    idx, threadVars, turns, output, ghostVars, countVars >>

\* the loop head with the flag set: reset, then agent.run_stream(current_input)
IssueTurn ==
    /\ pc = "while"
    /\ has_user_input_requests
    /\ has_user_input_requests' = FALSE
    /\ user_input_requests' = <<>>
    /\ turns' = Append(turns, Call(current_input))
    /\ streamOpen' = TRUE
    /\ streamLog' = <<>>
    /\ asked' = <<>>
    /\ pc' = "stream"
    /\ UNCHANGED << user_approval, example, query, agentOpen, thread, current_input, new_inputs, idx,
                    threadVars, output, history, fault, countVars >>

\* the loop head with the flag clear: the function returns, the example ends
LoopExit ==
    /\ pc = "while"
    /\ ~has_user_input_requests
    /\ pc' = "done"
    /\ UNCHANGED << example, query, agentOpen, thread, progVars, threadVars, turns,
                    output, ghostVars, countVars >>

\* one chunk of the stream: print its text, collect its requests
NextChunk(chunk) ==
    /\ pc = "stream"
    /\ nChunks < MaxChunks
    /\ nRequests + Len(chunk.user_input_requests) <= MaxRequests
    /\ output' = Emit(output, chunk)
    /\ user_input_requests' = Collect(user_input_requests, chunk)
    /\ streamLog' = Append(streamLog, chunk)
    /\ nChunks' = nChunks + 1
    /\ nRequests' = nRequests + Len(chunk.user_input_requests)
    /\ UNCHANGED << user_approval, example, query, pc, agentOpen, thread, current_input,
                    has_user_input_requests, new_inputs, idx, threadVars, turns,
                    streamOpen, asked, history, fault >>

\* the stream is exhausted: decide whether approvals are needed
StreamEnd ==
    /\ pc = "stream"
    /\ streamOpen' = FALSE
    /\ IF NeedsAnotherTurn(user_input_requests)
       THEN /\ has_user_input_requests' = TRUE
            /\ new_inputs' = NewInputs(query)
            /\ idx' = 1
            /\ pc' = "for"
       ELSE /\ pc' = "while"
            /\ UNCHANGED << has_user_input_requests, new_inputs, idx >>
    /\ UNCHANGED << user_approval, example, query, agentOpen, thread, current_input, user_input_requests,
                    threadVars, turns, output, streamLog, asked, history, fault,
                    countVars >>

\* the stream raises while the next chunk is awaited: nothing catches it
StreamFault ==
    /\ pc = "stream"
    /\ streamOpen' = FALSE
    /\ fault' = "stream"
    /\ pc' = "raised"
    /\ UNCHANGED << example, query, agentOpen, thread, progVars, threadVars, turns,
                    output, streamLog, asked, history, countVars >>

\* for user_input_needed in user_input_requests: print it, add the assistant
\* message, then prompt the operator
PromptRequest ==
    /\ pc = "for"
    /\ idx <= Len(user_input_requests)
    /\ output' = EmitRequest(output, user_input_requests[idx])
    /\ new_inputs' = AppendRequest(new_inputs, user_input_requests[idx])
    /\ history' = Append(history, ChatMessage("assistant", ApprovalRequest(user_input_requests[idx])))
    /\ asked' = Append(asked, user_input_requests[idx])
    /\ pc' = "await_input"
    /\ UNCHANGED << user_approval, example, query, agentOpen, thread, current_input,
                    has_user_input_requests, user_input_requests, idx, threadVars, turns,
                    streamOpen, streamLog, fault, countVars >>

\* the operator answers: add the user message with the response
ReceiveAnswer(answer) ==
    /\ pc = "await_input"
    /\ new_inputs' = AppendResponse(new_inputs, user_input_requests[idx], answer)
    /\ history' = IF Len(new_inputs') > Len(new_inputs)
                  THEN Append(history, new_inputs'[Len(new_inputs')])
                  ELSE history
    /\ user_approval' = answer
    /\ idx' = idx + 1
    /\ pc' = "for"
    /\ UNCHANGED << example, query, agentOpen, thread, current_input,
                    has_user_input_requests, user_input_requests, threadVars, turns,
                    output, streamOpen, streamLog, asked, fault, countVars >>

\* a plausible slip: the fault is swallowed and the loop goes on to the next request
ApproverRaisesSwallowed ==
    /\ pc = "await_input"
    /\ fault' = "approver"
    /\ idx' = idx + 1
    /\ pc' = "for"
    /\ UNCHANGED << user_approval, example, query, agentOpen, thread, current_input,
                    has_user_input_requests, user_input_requests, new_inputs, threadVars,
                    turns, output, streamOpen, streamLog, asked, history,
                    countVars >>

\* input() raises while the answer is awaited: nothing catches it
ApproverRaises ==
    /\ pc = "await_input"
    /\ fault' = "approver"
    /\ pc' = "raised"
    /\ UNCHANGED << example, query, agentOpen, thread, progVars, threadVars, turns,
                    output, streamOpen, streamLog, asked, history, countVars >>

\* the for loop is over: current_input = new_inputs, back to the loop head
ForEnd ==
    /\ pc = "for"
    /\ idx > Len(user_input_requests)
    /\ current_input' = ListInput(new_inputs)
    /\ pc' = "while"
    /\ UNCHANGED << user_approval, example, query, agentOpen, thread, has_user_input_requests,
                    user_input_requests, new_inputs, idx, threadVars, turns, output,
                    ghostVars, countVars >>

\* ------------------------------------ approval_example / rejection_example
\* result = await agent.run(query, thread=thread), then the check for requests
RunQuery(res) ==
    /\ pc = "run_query"
    /\ Len(res.user_input_requests) <= MaxRequests
    /\ turns' = Append(turns, Call(StrInput(query)))
    /\ result' = res
    /\ iter_requests' = res.user_input_requests
    /\ idx' = 1
    /\ surfaced' = res.user_input_requests
    /\ firstRequests' = res.user_input_requests
    /\ nRequests' = Len(res.user_input_requests)
    /\ pc' = "thread_for"
    /\ UNCHANGED << user_approval, example, query, agentOpen, thread, current_input,
                    has_user_input_requests, user_input_requests, new_inputs, output,
                    ghostVars, nChunks >>

\* for request in result.user_input_requests: print it, build the response and
\* send it alone on the thread; the call's result replaces result
FollowUp(res) ==
    /\ pc = "thread_for"
    /\ idx <= Len(iter_requests)
    /\ nRequests + Len(res.user_input_requests) <= MaxRequests
    /\ output' = EmitRequest(output, iter_requests[idx])
    /\ turns' = Append(turns, Call(FollowUpInput(query, iter_requests[idx], ApprovedOf(example))))
    /\ result' = res
    /\ surfaced' = surfaced \o res.user_input_requests
    /\ nRequests' = nRequests + Len(res.user_input_requests)
    /\ idx' = idx + 1
    /\ UNCHANGED << user_approval, example, query, pc, agentOpen, thread, current_input,
                    has_user_input_requests, user_input_requests, new_inputs,
                    iter_requests, firstRequests, ghostVars, nChunks >>

\* print(f"Agent: {result}\n"): the example is over
PrintResult ==
    /\ pc = "thread_for"
    /\ idx > Len(iter_requests)
    /\ output' = Append(output, [kind |-> "result", text |-> result.text, id |-> 0])
    /\ pc' = "done"
    /\ UNCHANGED << example, query, agentOpen, thread, progVars, threadVars, turns,
                    ghostVars, countVars >>

Next ==
    \/ EnterScope
    \/ ExitScope
    \/ CallHandle
    \/ IssueTurn
    \/ LoopExit
    \/ \E chunk \in Chunks : NextChunk(chunk)
    \/ StreamEnd
    \/ StreamFault
    \/ PromptRequest
    \/ \E answer \in Answers : ReceiveAnswer(answer)
    \/ ApproverRaises
    \/ ForEnd
    \/ \E res \in Results : RunQuery(res)
    \/ \E res \in Results : FollowUp(res)
    \/ PrintResult

Spec == Init /\ [][Next]_vars

\* ------------------------------------------------- operators of the claims
IsPrefix(s, t) == Len(s) <= Len(t) /\ SubSeq(t, 1, Len(s)) = s

\* the chunk texts among everything printed, in print order
RECURSIVE PrintedTexts(_)
PrintedTexts(out) ==
    IF out = <<>> THEN <<>>
    ELSE LET rest == PrintedTexts(SubSeq(out, 1, Len(out) - 1))
             last == out[Len(out)]
         IN  IF last.kind = "text" THEN Append(rest, last.text) ELSE rest

\* how often r occurs in a sequence of request ids
Occurrences(reqs, r) == Cardinality({ i \in DOMAIN reqs : reqs[i] = r })

\* the approval responses for r among the contents of a sequence of messages
ResponsesIn(items, r) ==
    Cardinality({ i \in DOMAIN items :
        \E j \in DOMAIN items[i].contents :
            /\ items[i].contents[j].kind = "approval_response"
            /\ items[i].contents[j].id = r })

\* the approval responses for r sent over all calls of the run
RECURSIVE ResponsesSent(_, _)
ResponsesSent(calls, r) ==
    IF calls = <<>> THEN 0
    ELSE ResponsesSent(SubSeq(calls, 1, Len(calls) - 1), r)
         + ResponsesIn(calls[Len(calls)].input.items, r)

Streaming == example = "streaming_example"
Threaded == example \in ThreadExamples
LastTurn == turns[Len(turns)]

\* the stream of the current iteration ended normally
StreamConsumed == turns # <<>> /\ ~streamOpen /\ fault # "stream"

\* the current iteration's for loop has answered everything it collected
RoundAnswered == Streaming /\ pc = "while" /\ has_user_input_requests /\ turns # <<>>

\* ------------------------------------------------------------------ C1
\* C1: in one iteration the operator is prompted once per surfaced request,
\* one at a time and in the order the requests arrived over the chunks;
\* never while the stream is still live; and the next turn is issued only
\* after every surfaced request of the iteration has been prompted for.
C1_Step ==
    /\ IsPrefix(asked', RequestsOf(streamLog'))
    /\ asked' # asked /\ asked' # <<>> =>
          /\ ~streamOpen
          /\ asked' = Append(asked, RequestsOf(streamLog)[Len(asked) + 1])
          /\ Len(new_inputs) = 1 + 2 * Len(asked)
    /\ Streaming /\ turns # <<>> /\ Len(turns') > Len(turns) =>
          /\ asked = RequestsOf(streamLog)
          /\ Len(asked) >= 1
          /\ Len(new_inputs) = 1 + 2 * Len(asked)

C1_ApproverOncePerRequestInOrder == [][C1_Step]_vars

\* two requests over three chunks, text in between, both prompted, turn pending
C1_Witness ==
    /\ RoundAnswered
    /\ Len(streamLog) = 3
    /\ streamLog[1].user_input_requests # <<>>
    /\ streamLog[2].user_input_requests = <<>> /\ streamLog[2].text # ""
    /\ streamLog[3].user_input_requests # <<>>
    /\ asked = RequestsOf(streamLog)
    /\ Len(asked) = 2

\* ------------------------------------------------------------------ C2
\* C2: the loop ends right after the first iteration whose stream carried no
\* request and never after one that carried some; when already the first
\* stream carries none there is one turn (the bare query), no prompt, and
\* the non-empty chunk texts are printed in arrival order.
C2_LoopEndsOnFirstQuietStream ==
    Streaming =>
        /\ pc = "done" => RequestsOf(streamLog) = <<>> /\ StreamConsumed
        /\ StreamConsumed /\ RequestsOf(streamLog) = <<>> =>
              /\ pc \in {"while", "done"}
              /\ ~has_user_input_requests
        /\ StreamConsumed /\ RequestsOf(streamLog) # <<>> /\ fault = "none" =>
              /\ pc \in {"for", "await_input", "while"}
              /\ has_user_input_requests
        /\ Len(turns) = 1 =>
              /\ turns[1].input.kind = "str"
              /\ PrintedTexts(output) = TextsOf(streamLog)
        /\ Len(turns) = 1 /\ RequestsOf(streamLog) = <<>> => asked = <<>>

\* a first stream of three chunks, one without text, no request: the run is over
C2_Witness ==
    /\ Streaming
    /\ pc = "done"
    /\ Len(turns) = 1
    /\ Len(streamLog) = 3
    /\ PrintedTexts(output) = <<"b", "a">>
    /\ asked = <<>>

\* ------------------------------------------------------------------ C3
\* C3: the input of every resubmitted turn holds the query and the approval
\* messages of every round of the run so far, not only of the latest round.
C3_ResubmitsEveryRound ==
    Streaming /\ pc = "stream" /\ Len(turns) >= 2 =>
        LET items == LastTurn.input.items
        IN  /\ Len(items) >= 1 + Len(history)
            /\ \A i \in DOMAIN history : \E j \in DOMAIN items : items[j] = history[i]

\* ------------------------------------------------------------------ C4
\* C4: whatever the number of rounds, the rebuilt input is a list whose
\* first element is the query the function was called with.
C4_QueryFirst ==
    Streaming =>
        /\ \A i \in DOMAIN turns : i >= 2 =>
              /\ turns[i].input.kind = "list"
              /\ turns[i].input.items # <<>>
              /\ turns[i].input.items[1].role = "str"
              /\ turns[i].input.items[1].contents[1].text = StreamingQuery
        /\ pc \in {"for", "await_input"} =>
              /\ new_inputs # <<>>
              /\ new_inputs[1].role = "str"
              /\ new_inputs[1].contents[1].text = StreamingQuery

\* the turn after the second approval round has been issued
C4_Witness ==
    /\ Streaming
    /\ Len(turns) = 3
    /\ LastTurn.input.items[1].contents[1].text = StreamingQuery

\* ------------------------------------------------------------------ C5
\* C5: after an iteration that collected k >= 1 requests the resubmitted input
\* is the query followed by k (assistant, user) pairs in collection order,
\* pair i carrying request i and the response made from it; every request id
\* is answered as often as it was collected; the decisions do not matter, and
\* the turn that follows is issued with exactly that input.
C5_PairsOf(items, reqs) ==
    /\ Len(items) = 1 + 2 * Len(reqs)
    /\ \A i \in DOMAIN reqs :
          /\ items[2 * i].role = "assistant"
          /\ Len(items[2 * i].contents) = 1
          /\ items[2 * i].contents[1].kind = "approval_request"
          /\ items[2 * i].contents[1].id = reqs[i]
          /\ items[2 * i + 1].role = "user"
          /\ Len(items[2 * i + 1].contents) = 1
          /\ items[2 * i + 1].contents[1].kind = "approval_response"
          /\ items[2 * i + 1].contents[1].id = reqs[i]
    /\ \A r \in RequestIds : ResponsesIn(items, r) = Occurrences(reqs, r)

C5_OnePairPerRequest ==
    /\ RoundAnswered =>
          /\ RequestsOf(streamLog) # <<>>
          /\ current_input.kind = "list"
          /\ C5_PairsOf(current_input.items, RequestsOf(streamLog))
    /\ Streaming /\ pc = "stream" => LastTurn.input = current_input

\* two requests, both rejected, and the next turn has been issued
C5_Witness ==
    /\ Streaming
    /\ pc = "stream"
    /\ Len(turns) = 2
    /\ Len(LastTurn.input.items) = 5
    /\ ~LastTurn.input.items[3].contents[1].approved
    /\ ~LastTurn.input.items[5].contents[1].approved

\* ------------------------------------------------------------------ C6
\* C6: when a thread example has printed its final result, every request
\* carried by any result of the run, the first one or a later one, has been
\* answered by exactly one approval response.
C6_EverySurfacedRequestAnswered ==
    Threaded /\ pc = "done" =>
        \A r \in RequestIds : ResponsesSent(turns, r) = Occurrences(surfaced, r)

\* ------------------------------------------------------------------ C7
\* C7: once the stream or the operator prompt has raised, the loop is over
\* and the exception is on its way to the caller: no turn is issued, nobody
\* is prompted, and what was printed stays printed.
C7_Step ==
    /\ fault' # "none" =>
          /\ pc' = "raised"
          /\ turns' = turns
          /\ IsPrefix(output, output')
    /\ fault # "none" =>
          /\ turns' = turns
          /\ asked' = asked
          /\ output' = output

C7_FaultAbortsLoop == [][C7_Step]_vars

\* the second of two prompts raised, after a text chunk was printed
C7_Witness ==
    /\ fault = "approver"
    /\ pc = "raised"
    /\ Len(asked) = 2
    /\ Len(new_inputs) = 4
    /\ PrintedTexts(output) # <<>>
    /\ Len(turns) = 1

\* ------------------------------------------------------------------ C8
\* C8: the response made for a request says approved exactly when the
\* operator's answer to its prompt is "y" or "Y"; it is the response for the
\* request that was prompted for.
C8_DecisionIsYes ==
    Streaming /\ pc = "for" /\ idx > 1 =>
        LET m == new_inputs[Len(new_inputs)]
        IN  /\ m.role = "user"
            /\ m.contents[1].kind = "approval_response"
            /\ m.contents[1].id = asked[Len(asked)]
            /\ m.contents[1].approved <=> user_approval \in { <<"y">>, <<"Y">> }

\* the operator typed an upper-case Y and the response approves
C8_Witness ==
    /\ Streaming
    /\ pc = "for"
    /\ idx > 1
    /\ user_approval = <<"Y">>
    /\ new_inputs[Len(new_inputs)].contents[1].approved

\* ------------------------------------------------------------------ C9
\* C9: a thread example whose first result carries k requests makes exactly k
\* follow-up calls on its thread, in the order of those requests, each with
\* one user message holding only the response for that request (approving
\* in approval_example, rejecting in rejection_example).
C9_OneFollowUpPerRequest ==
    Threaded =>
        /\ Len(turns) <= 1 + Len(firstRequests)
        /\ pc = "done" => Len(turns) = 1 + Len(firstRequests)
        /\ \A i \in DOMAIN turns :
              /\ turns[i].thread = 1
              /\ i = 1 => turns[i].input.kind = "str"
              /\ i >= 2 =>
                    /\ turns[i].input.kind = "message"
                    /\ Len(turns[i].input.items) = 1
                    /\ turns[i].input.items[1].role = "user"
                    /\ Len(turns[i].input.items[1].contents) = 1
                    /\ turns[i].input.items[1].contents[1].kind = "approval_response"
                    /\ turns[i].input.items[1].contents[1].id = firstRequests[i - 1]
                    /\ turns[i].input.items[1].contents[1].approved
                          <=> example = "approval_example"

\* rejection_example is over after two rejections sent one by one
C9_Witness ==
    /\ example = "rejection_example"
    /\ pc = "done"
    /\ firstRequests = <<1, 2>>
    /\ Len(turns) = 3

\* ----------------------------------------------------------------- C10
\* C10: every run / run_stream call is made while the agent's async-with
\* scope is open.
C10_Step == Len(turns') > Len(turns) => agentOpen

C10_TurnsInsideScope == [][C10_Step]_vars

====
